---- MODULE Spec2Model ----
(***************************************************************************)
(* Legacy challenge processor: src/src/services/ProcessorService.js.       *)
(*                                                                         *)
(* processCreate and processUpdate are modelled statement by statement:    *)
(* one action per await (every external call may succeed or fail) and one  *)
(* for each stretch of synchronous code that can throw.  The Informix      *)
(* store is a record of tables; a connection that has begun a transaction  *)
(* keeps its writes in a log that commit applies to the store and          *)
(* rollback (or closing the connection) discards.                          *)
(***************************************************************************)
EXTENDS Integers, Sequences, FiniteSets, TLC

(***************************************************************************)
(* Bounds of the model.                                                    *)
(***************************************************************************)
\* number of events a worker processes, one after the other
MaxEvents == 1
\* prize derivation: the longest prize-set list and the longest prize list
MaxPrizeSets == 2
MaxPrizes == 2

\* workers (each event is processed by one worker on its own connection)
Procs == {1, 2}

\* an absent (undefined) string field
NULL == "null"

(***************************************************************************)
(* constants.js (not part of src/): the enumerations the service reads.    *)
(***************************************************************************)
projectTypes == [Component |-> "Component", Application |-> "Application", Studio |-> "Studio"]

\* keyed by track; id is the legacy project category id
projectCategories ==
  [ CODE              |-> [id |-> 39, name |-> "Code", projectType |-> projectTypes.Application],
    DESIGN            |-> [id |-> 1, name |-> "Design", projectType |-> projectTypes.Component],
    MARATHON_MATCH    |-> [id |-> 37, name |-> "Marathon Match", projectType |-> projectTypes.Application],
    CONCEPTUALIZATION |-> [id |-> 23, name |-> "Conceptualization", projectType |-> projectTypes.Application],
    WEB_DESIGNS       |-> [id |-> 17, name |-> "Web Design", projectType |-> projectTypes.Studio] ]

componentCategories ==
  [ NotSetParent  |-> [id |-> "NotSetParent"],
    NotSet        |-> [id |-> "NotSet"],
    Application   |-> [id |-> "Application"],
    BusinessLayer |-> [id |-> "BusinessLayer"] ]

prizeSetTypes == [Code |-> "Code", F2F |-> "First to Finish", CheckPoint |-> "Check Point", MM |-> "Marathon"]

phaseTypes == [registration |-> "registration", submission |-> "submission", checkpoint |-> "checkpoint"]

(***************************************************************************)
(* lodash and JavaScript helpers.                                          *)
(***************************************************************************)
\* String.prototype.toLowerCase over the phase names the events use
toLowerCase(s) ==
  CASE s = "Registration" -> "registration"
    [] s = "Submission" -> "submission"
    [] s = "Checkpoint" -> "checkpoint"
    [] OTHER -> s

\* _.find(seq, pred): <<first match>>, or <<>> for undefined
find(seq, pred(_)) ==
  LET I == {i \in DOMAIN seq : pred(seq[i])}
  IN IF I = {} THEN <<>> ELSE <<seq[CHOOSE i \in I : \A j \in I : i <= j]>>

\* _.filter(seq, pred)
filter(seq, pred(_)) == SelectSeq(seq, pred)

RECURSIVE insertDesc(_, _)
\* v placed into the descending sequence s, after the entries not smaller than v
insertDesc(s, v) ==
  IF s = <<>> THEN <<v>>
  ELSE IF Head(s) - v >= 0 THEN <<Head(s)>> \o insertDesc(Tail(s), v)
  ELSE <<v>> \o s

RECURSIVE sortDescLoop(_, _)
sortDescLoop(rest, acc) ==
  IF rest = <<>> THEN acc ELSE sortDescLoop(Tail(rest), insertDesc(acc, Head(rest)))

\* values.sort((a, b) => b - a)
sortDesc(values) == sortDescLoop(values, <<>>)

(***************************************************************************)
(* Optional values: a JavaScript property that may be undefined is a       *)
(* sequence of length at most one; null is Some(Undefined).                *)
(***************************************************************************)
Undefined == <<>>
Some(v) == <<v>>
Null == Some(Undefined)

\* Date.now(): the clock reading of the run, in milliseconds
Now == 1000

\* the errors the service itself raises
TypeError == "TypeError"
InvalidPrizeError == "Challenge prize information is invalid."
ChangeTypeError == "You can't change challenge type"
ChallengeNotFound == "Challenge with id doesn't existed"
NoComponentVersion == "No component version found for challenge"
NoError == "none"

(***************************************************************************)
(* Lookup tables of the legacy store that the service only reads.          *)
(***************************************************************************)
technology_types ==
  << [technology_type_id |-> 1, technology_name |-> "Java", status_id |-> 1],
     [technology_type_id |-> 2, technology_name |-> "Node.js", status_id |-> 1],
     [technology_type_id |-> 3, technology_name |-> "Cobol", status_id |-> 0] >>

project_platform_lu == << [project_platform_id |-> 1, name |-> "AWS"] >>

\* project 1: Code; 2: Marathon Match; 3: Code, without a component version;
\* 4: Web Design (studio)
project ==
  { [project_id |-> 1, project_category_id |-> 39],
    [project_id |-> 2, project_category_id |-> 37],
    [project_id |-> 3, project_category_id |-> 39],
    [project_id |-> 4, project_category_id |-> 17] }

\* project_info_type_id 1 holds the component version of a project; 2 is another property
project_info ==
  { [project_id |-> 1, project_info_type_id |-> 1, value |-> 21],
    [project_id |-> 2, project_info_type_id |-> 1, value |-> 22],
    [project_id |-> 3, project_info_type_id |-> 2, value |-> 21],
    [project_id |-> 4, project_info_type_id |-> 1, value |-> 23] }

(***************************************************************************)
(* parsePayload, the synchronous part: phases and prize-sets.              *)
(* A result is [err, data]; err = NoError when the step returns.           *)
(***************************************************************************)
\* lines 134-147: the DTO before any optional field is filled in
newData(payload) ==
  [ subTrack |-> payload.track,
    name |-> payload.name,
    track |-> NULL,
    registrationStartsAt |-> Undefined,
    registrationEndsAt |-> Undefined,
    submissionEndsAt |-> Undefined,
    checkpointSubmissionStartsAt |-> Undefined,
    checkpointSubmissionEndsAt |-> Undefined,
    numberOfCheckpointPrizes |-> Undefined,
    checkpointPrize |-> Undefined,
    prizes |-> Undefined,
    technologies |-> Undefined,
    platforms |-> Undefined ]

\* variant of parsePhases that sets no checkpoint end (without line 166)
parsePhases_NoCheckpointEnd(data, phases) ==
  LET registrationPhase == find(phases, LAMBDA p : toLowerCase(p.name) = phaseTypes.registration)
      submissionPhase == find(phases, LAMBDA p : toLowerCase(p.name) = phaseTypes.submission)
      checkpointPhase == find(phases, LAMBDA p : toLowerCase(p.name) = phaseTypes.checkpoint)
  IN IF phases = <<>> THEN [err |-> NoError, data |-> data]
     ELSE IF registrationPhase = <<>> \/ submissionPhase = <<>>
     THEN [err |-> TypeError, data |-> data]
     ELSE [ err |-> NoError,
            data |-> [ data EXCEPT
              !.registrationStartsAt = Some(Now),
              !.registrationEndsAt = Some(Now + registrationPhase[1].duration),
              !.submissionEndsAt = Some(Now + submissionPhase[1].duration),
              !.checkpointSubmissionStartsAt =
                 IF checkpointPhase # <<>> THEN Some(Some(Now)) ELSE Null,
              !.checkpointSubmissionEndsAt = Null ] ]

\* lines 155-171
parsePhases(data, phases) ==
  LET registrationPhase == find(phases, LAMBDA p : toLowerCase(p.name) = phaseTypes.registration)
      submissionPhase == find(phases, LAMBDA p : toLowerCase(p.name) = phaseTypes.submission)
      checkpointPhase == find(phases, LAMBDA p : toLowerCase(p.name) = phaseTypes.checkpoint)
  IN IF phases = <<>> THEN [err |-> NoError, data |-> data]
     ELSE IF registrationPhase = <<>> \/ submissionPhase = <<>>
     THEN [err |-> TypeError, data |-> data]
     ELSE [ err |-> NoError,
            data |-> [ data EXCEPT
              !.registrationStartsAt = Some(Now),
              !.registrationEndsAt = Some(Now + registrationPhase[1].duration),
              !.submissionEndsAt = Some(Now + submissionPhase[1].duration),
              !.checkpointSubmissionStartsAt =
                 IF checkpointPhase # <<>> THEN Some(Some(Now)) ELSE Null,
              !.checkpointSubmissionEndsAt =
                 IF checkpointPhase # <<>> THEN Some(Some(Now + checkpointPhase[1].duration)) ELSE Null ] ]

\* line 185: the prize-sets that are not the checkpoint set
challengePrizesOf(prizeSets) == filter(prizeSets, LAMBDA p : p.type # prizeSetTypes.CheckPoint)

\* variant of sortedPrizes that keeps the payload's order (no .sort of line 193)
sortedPrizes_Unsorted(prizes) == prizes

\* line 193: the values of one prize-set, sorted
sortedPrizes(prizes) == sortDesc(prizes)

\* variant of parsePrizes without the throw of lines 186-188
parsePrizes_NoLimit(data, prizeSets) ==
  LET checkpointPrize == find(prizeSets, LAMBDA p : p.type = prizeSetTypes.CheckPoint)
      withCheckpoint ==
        IF checkpointPrize # <<>>
        THEN [ data EXCEPT !.numberOfCheckpointPrizes = Some(Len(checkpointPrize[1].prizes)),
                           !.checkpointPrize = Some(checkpointPrize[1].prizes[1]) ]
        ELSE [ data EXCEPT !.numberOfCheckpointPrizes = Some(0), !.checkpointPrize = Some(0) ]
      challengePrizes == challengePrizesOf(prizeSets)
  IN IF prizeSets = <<>> THEN [err |-> NoError, data |-> data]
     ELSE IF Len(challengePrizes) = 0
     THEN [err |-> NoError, data |-> [withCheckpoint EXCEPT !.prizes = Some(<<0>>)]]
     ELSE [err |-> NoError,
           data |-> [withCheckpoint EXCEPT !.prizes = Some(sortedPrizes(challengePrizes[1].prizes))]]

\* lines 172-195; a prize-set is [type, prizes], prizes the sequence of the entries' values
parsePrizes(data, prizeSets) ==
  LET checkpointPrize == find(prizeSets, LAMBDA p : p.type = prizeSetTypes.CheckPoint)
      withCheckpoint ==
        IF checkpointPrize # <<>>
        THEN [ data EXCEPT !.numberOfCheckpointPrizes = Some(Len(checkpointPrize[1].prizes)),
                           !.checkpointPrize = Some(checkpointPrize[1].prizes[1]) ]
        ELSE [ data EXCEPT !.numberOfCheckpointPrizes = Some(0), !.checkpointPrize = Some(0) ]
      challengePrizes == challengePrizesOf(prizeSets)
  IN IF prizeSets = <<>> THEN [err |-> NoError, data |-> data]
     ELSE IF Len(challengePrizes) > 1 THEN [err |-> InvalidPrizeError, data |-> withCheckpoint]
     ELSE IF Len(challengePrizes) = 0
     THEN [err |-> NoError, data |-> [withCheckpoint EXCEPT !.prizes = Some(<<0>>)]]
     ELSE [err |-> NoError,
           data |-> [withCheckpoint EXCEPT !.prizes = Some(sortedPrizes(challengePrizes[1].prizes))]]

\* lines 152-195: everything parsePayload does between the type lookup and the tag lookup
parseSync(data, payload) ==
  LET ph == parsePhases(data, payload.phases)
  IN IF ph.err # NoError THEN ph ELSE parsePrizes(ph.data, payload.prizeSets)

\* line 67-69: the active technologies, in the order the query returns them
technologiesResult ==
  LET rows == filter(technology_types, LAMBDA t : t.status_id = 1)
  IN [i \in DOMAIN rows |-> [id |-> rows[i].technology_type_id, name |-> rows[i].technology_name]]

\* line 78-80
platformsResult ==
  [i \in DOMAIN project_platform_lu |->
     [id |-> project_platform_lu[i].project_platform_id, name |-> project_platform_lu[i].name]]

\* lines 198, 201: the entries whose name is one of the tags
matchTags(result, tags) == filter(result, LAMBDA e : e.name \in tags)

\* variant of getCategory without the !isStudio conjunct of line 225
getCategory_IgnoringStudio(track, isStudio) ==
  IF track \notin {"MARATHON_MATCH", "DESIGN", "DEVELOPMENT"}
  THEN [rootCategory |-> componentCategories.Application, category |-> componentCategories.BusinessLayer]
  ELSE [rootCategory |-> componentCategories.NotSetParent, category |-> componentCategories.NotSet]

\* lines 221-230
getCategory(track, isStudio) ==
  IF track \notin {"MARATHON_MATCH", "DESIGN", "DEVELOPMENT"} /\ ~isStudio
  THEN [rootCategory |-> componentCategories.Application, category |-> componentCategories.BusinessLayer]
  ELSE [rootCategory |-> componentCategories.NotSetParent, category |-> componentCategories.NotSet]

(***************************************************************************)
(* Errors of the external calls.  A failed call raises an error named      *)
(* after the call; the V5 API client raises one of three HTTP failures.    *)
(***************************************************************************)
HttpWithMessage == "http error with response.body.message"
HttpNoMessage == "http error without response body"
NetworkError == "getRequest"
UpstreamMessage == "Error: upstream message"
EmptyError == "Error: undefined"

\* err.status of line 205
hasStatus(err) == err \in {HttpWithMessage, HttpNoMessage}

\* line 207-208: new Error(_.get(err, 'response.body.message'))
newErrorFromResponse(err) == IF err = HttpWithMessage THEN UpstreamMessage ELSE EmptyError

\* lines 204-212: what the catch of parsePayload throws for err
parseCatch(err) == IF hasStatus(err) THEN newErrorFromResponse(err) ELSE err

(***************************************************************************)
(* The tables the service writes, and the statements it runs on them.      *)
(***************************************************************************)
initialStore ==
  [ comp_catalog |->
      { [component_id |-> 11, current_version |-> 1, component_name |-> "Old1",
         status_id |-> 102, root_category_id |-> "Application"],
        [component_id |-> 12, current_version |-> 1, component_name |-> "Old2",
         status_id |-> 102, root_category_id |-> "NotSetParent"],
        [component_id |-> 13, current_version |-> 1, component_name |-> "Old3",
         status_id |-> 102, root_category_id |-> "NotSetParent"] },
    comp_categories |->
      { [comp_categories_id |-> 31, component_id |-> 11, category_id |-> "BusinessLayer"],
        [comp_categories_id |-> 32, component_id |-> 12, category_id |-> "NotSet"],
        [comp_categories_id |-> 33, component_id |-> 13, category_id |-> "NotSet"] },
    comp_versions |->
      { [comp_vers_id |-> 21, component_id |-> 11, version |-> 1, phase_id |-> 112],
        [comp_vers_id |-> 22, component_id |-> 12, version |-> 1, phase_id |-> 112],
        [comp_vers_id |-> 23, component_id |-> 13, version |-> 1, phase_id |-> 112] },
    comp_version_dates |->
      { [comp_version_dates_id |-> 41, comp_vers_id |-> 21, production_date |-> 0],
        [comp_version_dates_id |-> 42, comp_vers_id |-> 22, production_date |-> 0],
        [comp_version_dates_id |-> 43, comp_vers_id |-> 23, production_date |-> 0] },
    comp_technology |->
      { [comp_tech_id |-> 51, comp_vers_id |-> 21, technology_type_id |-> 1],
        [comp_tech_id |-> 52, comp_vers_id |-> 21, technology_type_id |-> 3],
        [comp_tech_id |-> 53, comp_vers_id |-> 22, technology_type_id |-> 2],
        [comp_tech_id |-> 54, comp_vers_id |-> 23, technology_type_id |-> 1] } ]

\* the sequences behind the five IDGenerator instances, lines 15-19
initialSequences ==
  [ COMPONENT_SEQ |-> 14, COMPVERSION_SEQ |-> 24, COMPCATEGORY_SEQ |-> 34,
    COMPVERSIONDATES_SEQ |-> 44, COMPTECH_SEQ |-> 55 ]

\* lines 38-44: insert into tableName (...) values (...)
insertRecord(tables, tableName, columnValues) ==
  [tables EXCEPT ![tableName] = @ \cup {columnValues}]

\* variant of updateRecord whose update has no where clause
updateRecord_NoWhere(tables, componentId, componentName) ==
  [tables EXCEPT !.comp_catalog = {[row EXCEPT !.component_name = componentName] : row \in @}]

\* lines 53-59 with the where clause of line 397: component_id = componentId
updateRecord(tables, componentId, componentName) ==
  [tables EXCEPT !.comp_catalog =
     { IF row.component_id = componentId THEN [row EXCEPT !.component_name = componentName] ELSE row
       : row \in @ }]

\* variant of deleteTechnologies whose delete has no where clause
deleteTechnologies_NoWhere(tables, componentVersionId) ==
  [tables EXCEPT !.comp_technology = {}]

\* line 403: delete from comp_technology where comp_vers_id = componentVersionId
deleteTechnologies(tables, componentVersionId) ==
  [tables EXCEPT !.comp_technology = {row \in @ : row.comp_vers_id # componentVersionId}]

\* Two connections do not lock each other out: a statement acts on the rows
\* committed when it runs and on those of its own transaction, and its effect
\* reaches the committed rows when its transaction commits.
\* variant of deletedRows whose delete finds no row
deletedRows_None(tables, componentVersionId) == {}

\* the rows the delete of line 403 removes when it runs on `tables`
deletedRows(tables, componentVersionId) ==
  tables.comp_technology \ deleteTechnologies(tables, componentVersionId).comp_technology

\* one write statement on the tables; a delete removes the rows it found when it ran
applyStatement(tables, st) ==
  CASE st.kind = "insert" -> insertRecord(tables, st.table, st.row)
    [] st.kind = "update" -> updateRecord(tables, st.componentId, st.name)
    [] st.kind = "delete" -> [tables EXCEPT !.comp_technology = @ \ st.rows]

RECURSIVE applyLog(_, _)
\* the statements of a transaction, in the order they ran
applyLog(tables, log) ==
  IF log = <<>> THEN tables ELSE applyLog(applyStatement(tables, Head(log)), Tail(log))

\* line 243 / 378: undefined when the track is no key of projectCategories
categoryOfTrack(track) ==
  IF track \in DOMAIN projectCategories THEN Some(projectCategories[track]) ELSE Undefined

\* line 376: _.find(constants.projectCategories, { id })
categoryOfId(id) ==
  LET K == {k \in DOMAIN projectCategories : projectCategories[k].id = id}
  IN IF K = {} THEN Undefined ELSE Some(projectCategories[CHOOSE k \in K : TRUE])

(***************************************************************************)
(* The events.  A payload field that is absent is NULL (a string), <<>>    *)
(* (a list) or {} (the tags); the schemas admit no empty string or list.   *)
(***************************************************************************)
registrationAndSubmission ==
  << [name |-> "Registration", duration |-> 2], [name |-> "submission", duration |-> 3] >>

withCheckpointPhase == registrationAndSubmission \o << [name |-> "Checkpoint", duration |-> 1] >>

submissionOnly == << [name |-> "submission", duration |-> 3] >>

onePrizeSet == << [type |-> prizeSetTypes.Code, prizes |-> <<1, 3, 2>>] >>

checkpointAndPrizeSet ==
  << [type |-> prizeSetTypes.CheckPoint, prizes |-> <<2, 2>>],
     [type |-> prizeSetTypes.Code, prizes |-> <<2, 3>>] >>

twoPrizeSets ==
  << [type |-> prizeSetTypes.Code, prizes |-> <<3, 1>>],
     [type |-> prizeSetTypes.F2F, prizes |-> <<2>>] >>

TagSets == { {"Java"}, {"Java", "Node.js", "AWS"}, {"Cobol"} }

CreateTracks == {"CODE", "MARATHON_MATCH", "WEB_DESIGNS", "NO_SUCH_TRACK"}

UpdateTracks == {NULL, "CODE", "MARATHON_MATCH"}

\* 5 is the id of no project
LegacyIds == {1, 2, 3, 4, 5}

\* processCreate.schema, lines 327-356: every field is required
CreateEvents ==
  { [kind |-> "create", legacyId |-> 0, typeId |-> "type-1", track |-> track, name |-> "New1",
     phases |-> form[1], prizeSets |-> form[2], tags |-> tags]
    : track \in CreateTracks, tags \in TagSets,
      form \in { <<registrationAndSubmission, onePrizeSet>>,
                 <<withCheckpointPhase, checkpointAndPrizeSet>>,
                 <<registrationAndSubmission, twoPrizeSets>>,
                 <<submissionOnly, onePrizeSet>> } }

\* processUpdate.schema, lines 426-455: only legacyId is required
UpdateEvents ==
  { [kind |-> "update", legacyId |-> legacyId, typeId |-> form[1], track |-> track, name |-> name,
     phases |-> form[2], prizeSets |-> form[3], tags |-> tags]
    : legacyId \in LegacyIds, track \in UpdateTracks, name \in {NULL, "New2"},
      tags \in TagSets \cup {{}},
      form \in { <<NULL, <<>>, <<>>>>,
                 <<"type-1", withCheckpointPhase, checkpointAndPrizeSet>>,
                 <<NULL, <<>>, twoPrizeSets>>,
                 <<NULL, submissionOnly, <<>>>> } }

Events == CreateEvents \cup UpdateEvents

(***************************************************************************)
(* State.                                                                  *)
(***************************************************************************)
VARIABLES
  db,      \* the committed rows of the five tables
  seq,     \* the next value of each id sequence
  run,     \* per worker: the local state of the event it is processing
  events   \* number of events started

vars == <<db, seq, run, events>>

\* a worker between two events
idleRun ==
  [ pc |-> "idle",
    payload |-> [kind |-> NULL, legacyId |-> 0, typeId |-> NULL, track |-> NULL, name |-> NULL,
                 phases |-> <<>>, prizeSets |-> <<>>, tags |-> {}],
    conn |-> "none",        \* the Informix connection: none, open, closed
    closes |-> 0,           \* calls of closeAsync
    inTx |-> FALSE,         \* the connection has an open transaction
    log |-> <<>>,           \* the statements of the open transaction
    data |-> Undefined,     \* saveDraftContestDTO
    parseErr |-> NoError,   \* err of the catch clause of parsePayload
    err |-> NoError,        \* e of the catch clause
    pending |-> NoError,    \* the exception in flight when finally runs
    thrown |-> NoError,     \* the exception the caller receives
    faults |-> {},          \* the external calls that failed
    calls |-> <<>>,         \* the external calls made, in order
    allocated |-> <<>>,     \* the ids getNextId returned, each with its sequence
    inserted |-> <<>>,      \* the rows insertRecord put on the connection, each with its table
    isStudio |-> FALSE,
    category |-> Undefined,
    challenge |-> Undefined,
    isUpdateTechs |-> FALSE,
    componentId |-> 0,
    componentVersionId |-> 0,
    rowId |-> 0,            \* the id allocated for the row about to be inserted
    techs |-> <<>>,         \* the technologies the loop has still to insert
    pre |-> [comp_catalog |-> {}, comp_categories |-> {}, comp_versions |-> {},
             comp_version_dates |-> {}, comp_technology |-> {}] ]
                            \* the committed rows when the event started

Init ==
  /\ db = initialStore
  /\ seq = initialSequences
  /\ run = [p \in Procs |-> idleRun]
  /\ events = 0

\* the rows a statement of worker p reads: the committed ones and its own
view(r) == applyLog(db, r.log)

called(r, call) == [r EXCEPT !.calls = Append(@, call)]

\* an external call fails outside the try block: the caller gets the error
exitWith(r, e) == [r EXCEPT !.pc = "done", !.thrown = e]

\* an error inside the try block, lines 319 and 418
raise(r, e) == [r EXCEPT !.pc = "catch", !.err = e]

\* an error inside parsePayload, lines 204-212: its catch throws, and so does the handler
parseFail(r, err) == exitWith([r EXCEPT !.parseErr = err], parseCatch(err))

\* the external call `call` fails inside the try block
fault(r, call) == raise([called(r, call) EXCEPT !.faults = @ \cup {call}], call)

\* a write statement runs on the connection
execute(r, st) ==
  IF r.inTx THEN [r |-> [r EXCEPT !.log = Append(@, st)], db |-> db]
  ELSE [r |-> r, db |-> applyStatement(db, st)]

\* IDGenerator.getNextId: the next value of the sequence
getNextId(sequenceName) == seq[sequenceName]

(***************************************************************************)
(* The dispatcher hands an event to an idle worker.                        *)
(***************************************************************************)
dispatch(p, offered, max) ==
  /\ run[p].pc \in {"idle", "done"}
  /\ events < max
  /\ \E payload \in offered :
       run' = [run EXCEPT ![p] = [idleRun EXCEPT !.pc = "getInformixConnection",
                                                 !.payload = payload, !.pre = db]]
  /\ events' = events + 1
  /\ UNCHANGED <<db, seq>>

Start(p) == dispatch(p, Events, MaxEvents)

(***************************************************************************)
(* Lines 238-241 and 364-367: connection, token, parsePayload.             *)
(***************************************************************************)
getInformixConnection(p) ==
  LET r == run[p] IN
  /\ r.pc = "getInformixConnection"
  /\ \/ run' = [run EXCEPT ![p] = [called(r, "getInformixConnection") EXCEPT
                                     !.conn = "open", !.pc = "getM2MToken"]]
     \/ run' = [run EXCEPT ![p] = exitWith([called(r, "getInformixConnection") EXCEPT
                                     !.faults = @ \cup {"getInformixConnection"}],
                                   "getInformixConnection")]
  /\ UNCHANGED <<db, seq, events>>

getM2MToken(p) ==
  LET r == run[p] IN
  /\ r.pc = "getM2MToken"
  /\ \/ run' = [run EXCEPT ![p] = [called(r, "getM2MToken") EXCEPT
                                     !.pc = "parsePayload", !.data = Some(newData(r.payload))]]
     \/ run' = [run EXCEPT ![p] = exitWith([called(r, "getM2MToken") EXCEPT
                                     !.faults = @ \cup {"getM2MToken"}], "getM2MToken")]
  /\ UNCHANGED <<db, seq, events>>

\* lines 148-151: the type lookup
parsePayload_getRequest(p) ==
  LET r == run[p] IN
  /\ r.pc = "parsePayload"
  /\ IF r.payload.typeId = NULL
     THEN run' = [run EXCEPT ![p] = [r EXCEPT !.pc = "parseSync"]]
     ELSE \/ run' = [run EXCEPT ![p] = [called(r, "getRequest") EXCEPT
                                          !.pc = "parseSync", !.data[1].track = "Code"]]
          \/ \E e \in {HttpWithMessage, HttpNoMessage, NetworkError} :
               run' = [run EXCEPT ![p] = parseFail([called(r, "getRequest") EXCEPT
                                          !.faults = @ \cup {"getRequest"}], e)]
  /\ UNCHANGED <<db, seq, events>>

\* where a run goes when parsePayload has returned
afterParse(r) == IF r.payload.kind = "create" THEN "category" ELSE "beginTransaction"

\* lines 152-196: description, phases, prize-sets
parsePayload_sync(p) ==
  LET r == run[p]
      res == parseSync(r.data[1], r.payload)
  IN
  /\ r.pc = "parseSync"
  /\ IF res.err # NoError
     THEN run' = [run EXCEPT ![p] = parseFail(r, res.err)]
     ELSE run' = [run EXCEPT ![p] = [r EXCEPT
                    !.data = Some(res.data),
                    !.pc = IF r.payload.tags # {} THEN "getTechnologies" ELSE afterParse(r)]]
  /\ UNCHANGED <<db, seq, events>>

\* lines 197-198
parsePayload_getTechnologies(p) ==
  LET r == run[p] IN
  /\ r.pc = "getTechnologies"
  /\ \/ run' = [run EXCEPT ![p] = [called(r, "query:technology_types") EXCEPT
                  !.pc = "getPlatforms",
                  !.data[1].technologies = Some(matchTags(technologiesResult, r.payload.tags))]]
     \/ run' = [run EXCEPT ![p] = parseFail([called(r, "query:technology_types") EXCEPT
                  !.faults = @ \cup {"query:technology_types"}],
                  "query:technology_types")]
  /\ UNCHANGED <<db, seq, events>>

\* lines 200-203
parsePayload_getPlatforms(p) ==
  LET r == run[p] IN
  /\ r.pc = "getPlatforms"
  /\ \/ run' = [run EXCEPT ![p] = [called(r, "query:project_platform_lu") EXCEPT
                  !.pc = afterParse(r),
                  !.data[1].platforms = Some(matchTags(platformsResult, r.payload.tags))]]
     \/ run' = [run EXCEPT ![p] = parseFail([called(r, "query:project_platform_lu") EXCEPT
                  !.faults = @ \cup {"query:project_platform_lu"}],
                  "query:project_platform_lu")]
  /\ UNCHANGED <<db, seq, events>>

(***************************************************************************)
(* The calls on the connection and on the id generators.                   *)
(***************************************************************************)
\* connection.beginTransactionAsync()
beginTransactionAsync(p, next) ==
  LET r == run[p] IN
  /\ \/ run' = [run EXCEPT ![p] = [called(r, "beginTransaction") EXCEPT !.inTx = TRUE, !.pc = next]]
     \/ run' = [run EXCEPT ![p] = fault(r, "beginTransaction")]
  /\ UNCHANGED <<db, seq, events>>

\* connection.commitTransactionAsync(): the statements of the transaction become
\* committed rows; a commit that fails commits nothing
commitTransactionAsync(p) ==
  LET r == run[p] IN
  \/ /\ run' = [run EXCEPT ![p] = [called(r, "commit") EXCEPT
                  !.inTx = FALSE, !.log = <<>>, !.pending = NoError, !.pc = "finally"]]
     /\ db' = applyLog(db, r.log)
     /\ UNCHANGED <<seq, events>>
  \/ /\ run' = [run EXCEPT ![p] = fault(r, "commit")]
     /\ UNCHANGED <<db, seq, events>>

\* connection.rollbackTransactionAsync(), then throw e
rollbackTransactionAsync(p) ==
  LET r == run[p] IN
  /\ \/ run' = [run EXCEPT ![p] = [called(r, "rollback") EXCEPT
                  !.inTx = FALSE, !.log = <<>>, !.pending = r.err, !.pc = "finally"]]
     \/ run' = [run EXCEPT ![p] = [called(r, "rollback") EXCEPT
                  !.faults = @ \cup {"rollback"}, !.pending = "rollback", !.pc = "finally"]]
  /\ UNCHANGED <<db, seq, events>>

\* connection.closeAsync() in the finally block; a closed connection drops the
\* statements of a transaction that was neither committed nor rolled back
closeAsync(p) ==
  LET r == run[p] IN
  /\ \/ run' = [run EXCEPT ![p] = [called(r, "close") EXCEPT
                  !.conn = "closed", !.closes = @ + 1, !.inTx = FALSE, !.log = <<>>,
                  !.thrown = r.pending, !.pc = "done"]]
     \/ run' = [run EXCEPT ![p] = [called(r, "close") EXCEPT
                  !.closes = @ + 1, !.faults = @ \cup {"close"},
                  !.thrown = "close", !.pc = "done"]]
  /\ UNCHANGED <<db, seq, events>>

\* await <generator>.getNextId(), the value kept in field `into` of the run
nextIdStep(p, sequenceName, call, next, keep(_, _)) ==
  LET r == run[p] IN
  \/ /\ run' = [run EXCEPT ![p] = [keep(called(r, call), getNextId(sequenceName)) EXCEPT
                  !.allocated = Append(@, [sequence |-> sequenceName, id |-> getNextId(sequenceName)]),
                  !.pc = next]]
     /\ seq' = [seq EXCEPT ![sequenceName] = @ + 1]
     /\ UNCHANGED <<db, events>>
  \/ /\ run' = [run EXCEPT ![p] = fault(r, call)]
     /\ UNCHANGED <<db, seq, events>>

\* a write statement st, then `after` applied to the run
writeStep(p, st, call, after(_)) ==
  LET r == run[p]
      c == IF st.kind = "insert"
           THEN [called(r, call) EXCEPT !.inserted = Append(@, [table |-> st.table, row |-> st.row])]
           ELSE called(r, call)
      x == execute(c, st)
  IN
  \/ /\ run' = [run EXCEPT ![p] = after(x.r)]
     /\ db' = x.db
     /\ UNCHANGED <<seq, events>>
  \/ /\ run' = [run EXCEPT ![p] = fault(r, call)]
     /\ UNCHANGED <<db, seq, events>>

\* the ISO timestamp cut to its date, .slice(0, 10) of line 303
isoDate(t) == t \div 86400000

(***************************************************************************)
(* processCreate, lines 236-325.                                           *)
(***************************************************************************)
\* lines 242-244
processCreate_category(p) ==
  LET r == run[p]
      c == categoryOfTrack(r.payload.track)
      isStudio == c[1].projectType = projectTypes.Studio
  IN
  /\ r.pc = "category"
  /\ IF c = Undefined
     THEN run' = [run EXCEPT ![p] = exitWith(r, TypeError)]
     ELSE run' = [run EXCEPT ![p] = [r EXCEPT
                    !.isStudio = isStudio,
                    !.category = Some(getCategory(r.payload.track, isStudio)),
                    !.pc = "beginTransaction"]]
  /\ UNCHANGED <<db, seq, events>>

\* variant of processCreate_beginTransaction that opens no transaction
processCreate_beginTransaction_NoTransaction(p) ==
  /\ run[p].pc = "beginTransaction" /\ run[p].payload.kind = "create"
  /\ run' = [run EXCEPT ![p] = [called(run[p], "beginTransaction") EXCEPT !.pc = "componentId"]]
  /\ UNCHANGED <<db, seq, events>>

\* line 248
processCreate_beginTransaction(p) ==
  /\ run[p].pc = "beginTransaction" /\ run[p].payload.kind = "create"
  /\ beginTransactionAsync(p, "componentId")

\* line 251
processCreate_componentId(p) ==
  /\ run[p].pc = "componentId"
  /\ nextIdStep(p, "COMPONENT_SEQ", "nextId:COMPONENT_SEQ", "insertComponent",
                LAMBDA r, id : [r EXCEPT !.componentId = id])

\* variant of processCreate_insertComponent followed by the version, not the category link
processCreate_insertComponent_BeforeVersion(p) ==
  LET r == run[p] IN
  /\ r.pc = "insertComponent"
  /\ writeStep(p, [kind |-> "insert", table |-> "comp_catalog",
                   row |-> [component_id |-> r.componentId, current_version |-> 1,
                            component_name |-> r.data[1].name, status_id |-> 102,
                            root_category_id |-> r.category[1].rootCategory.id]],
               "insert:comp_catalog", LAMBDA x : [x EXCEPT !.pc = "versionId"])

\* lines 254-263
processCreate_insertComponent(p) ==
  LET r == run[p] IN
  /\ r.pc = "insertComponent"
  /\ writeStep(p, [kind |-> "insert", table |-> "comp_catalog",
                   row |-> [component_id |-> r.componentId, current_version |-> 1,
                            component_name |-> r.data[1].name, status_id |-> 102,
                            root_category_id |-> r.category[1].rootCategory.id]],
               "insert:comp_catalog", LAMBDA x : [x EXCEPT !.pc = "categoryId"])

\* line 267; the id is kept until the insert that uses it
processCreate_categoryId(p) ==
  /\ run[p].pc = "categoryId"
  /\ nextIdStep(p, "COMPCATEGORY_SEQ", "nextId:COMPCATEGORY_SEQ", "insertCategory",
                LAMBDA r, id : [r EXCEPT !.rowId = id])

\* variant of processCreate_insertCategory that uses the component id as the id of the row
processCreate_insertCategory_ReusingComponentId(p) ==
  LET r == run[p] IN
  /\ r.pc = "insertCategory"
  /\ writeStep(p, [kind |-> "insert", table |-> "comp_categories",
                   row |-> [comp_categories_id |-> r.componentId, component_id |-> r.componentId,
                            category_id |-> r.category[1].category.id]],
               "insert:comp_categories", LAMBDA x : [x EXCEPT !.pc = "versionId"])

\* lines 266-270
processCreate_insertCategory(p) ==
  LET r == run[p] IN
  /\ r.pc = "insertCategory"
  /\ writeStep(p, [kind |-> "insert", table |-> "comp_categories",
                   row |-> [comp_categories_id |-> r.rowId, component_id |-> r.componentId,
                            category_id |-> r.category[1].category.id]],
               "insert:comp_categories", LAMBDA x : [x EXCEPT !.pc = "versionId"])

\* line 273
processCreate_versionId(p) ==
  /\ run[p].pc = "versionId"
  /\ nextIdStep(p, "COMPVERSION_SEQ", "nextId:COMPVERSION_SEQ", "insertVersion",
                LAMBDA r, id : [r EXCEPT !.componentVersionId = id])

\* lines 276-284
processCreate_insertVersion(p) ==
  LET r == run[p] IN
  /\ r.pc = "insertVersion"
  /\ writeStep(p, [kind |-> "insert", table |-> "comp_versions",
                   row |-> [comp_vers_id |-> r.componentVersionId, component_id |-> r.componentId,
                            version |-> 1, phase_id |-> 112]],
               "insert:comp_versions", LAMBDA x : [x EXCEPT !.pc = "datesId"])

\* line 289
processCreate_datesId(p) ==
  /\ run[p].pc = "datesId"
  /\ nextIdStep(p, "COMPVERSIONDATES_SEQ", "nextId:COMPVERSIONDATES_SEQ", "insertDates",
                LAMBDA r, id : [r EXCEPT !.rowId = id])

\* variant of createTechs without the !isStudio conjunct of line 306
createTechs_IgnoringStudio(r) ==
  IF /\ r.payload.track \notin {"MARATHON_MATCH", "CONCEPTUALIZATION", "SPECIFICATION"}
     /\ r.data[1].technologies # Undefined
  THEN r.data[1].technologies[1]
  ELSE <<>>

\* line 306: the technologies the loop of lines 307-314 inserts
createTechs(r) ==
  IF /\ r.payload.track \notin {"MARATHON_MATCH", "CONCEPTUALIZATION", "SPECIFICATION"}
     /\ ~r.isStudio
     /\ r.data[1].technologies # Undefined
  THEN r.data[1].technologies[1]
  ELSE <<>>

\* the next step of a technology loop that has still to insert techs
loopOver(r, techs) ==
  [r EXCEPT !.techs = techs, !.pc = IF techs = <<>> THEN "commit" ELSE "techId"]

\* variant of processCreate_insertDates whose row names the component, not its version
processCreate_insertDates_WrongOwner(p) ==
  LET r == run[p] IN
  /\ r.pc = "insertDates"
  /\ IF r.data[1].registrationStartsAt = Undefined
     THEN /\ run' = [run EXCEPT ![p] = raise(r, TypeError)]
          /\ UNCHANGED <<db, seq, events>>
     ELSE writeStep(p, [kind |-> "insert", table |-> "comp_version_dates",
                        row |-> [comp_version_dates_id |-> r.rowId,
                                 comp_vers_id |-> r.componentId,
                                 production_date |-> isoDate(r.data[1].registrationStartsAt[1])]],
                    "insert:comp_version_dates", LAMBDA x : loopOver(x, createTechs(x)))

\* lines 287-306; registrationStartsAt.slice throws when there is no phase list
processCreate_insertDates(p) ==
  LET r == run[p] IN
  /\ r.pc = "insertDates"
  /\ IF r.data[1].registrationStartsAt = Undefined
     THEN /\ run' = [run EXCEPT ![p] = raise(r, TypeError)]
          /\ UNCHANGED <<db, seq, events>>
     ELSE writeStep(p, [kind |-> "insert", table |-> "comp_version_dates",
                        row |-> [comp_version_dates_id |-> r.rowId,
                                 comp_vers_id |-> r.componentVersionId,
                                 production_date |-> isoDate(r.data[1].registrationStartsAt[1])]],
                    "insert:comp_version_dates", LAMBDA x : loopOver(x, createTechs(x)))

\* line 310
processCreate_techId(p) ==
  /\ run[p].pc = "techId" /\ run[p].payload.kind = "create"
  /\ nextIdStep(p, "COMPTECH_SEQ", "nextId:COMPTECH_SEQ", "insertTech",
                LAMBDA r, id : [r EXCEPT !.rowId = id])

\* lines 307-314
processCreate_insertTech(p) ==
  LET r == run[p] IN
  /\ r.pc = "insertTech" /\ r.payload.kind = "create"
  /\ writeStep(p, [kind |-> "insert", table |-> "comp_technology",
                   row |-> [comp_tech_id |-> r.rowId, comp_vers_id |-> r.componentVersionId,
                            technology_type_id |-> Head(r.techs).id]],
               "insert:comp_technology", LAMBDA x : loopOver(x, Tail(x.techs)))

\* line 318
processCreate_commit(p) ==
  /\ run[p].pc = "commit" /\ run[p].payload.kind = "create"
  /\ commitTransactionAsync(p)

\* lines 319-321
processCreate_rollback(p) ==
  /\ run[p].pc = "catch" /\ run[p].payload.kind = "create"
  /\ rollbackTransactionAsync(p)

\* lines 322-324
processCreate_close(p) ==
  /\ run[p].pc = "finally" /\ run[p].payload.kind = "create"
  /\ closeAsync(p)

processCreate(p) ==
  \/ processCreate_category(p)
  \/ processCreate_beginTransaction(p)
  \/ processCreate_componentId(p)
  \/ processCreate_insertComponent(p)
  \/ processCreate_categoryId(p)
  \/ processCreate_insertCategory(p)
  \/ processCreate_versionId(p)
  \/ processCreate_insertVersion(p)
  \/ processCreate_datesId(p)
  \/ processCreate_insertDates(p)
  \/ processCreate_techId(p)
  \/ processCreate_insertTech(p)
  \/ processCreate_commit(p)
  \/ processCreate_rollback(p)
  \/ processCreate_close(p)

(***************************************************************************)
(* processUpdate, lines 362-424.                                           *)
(***************************************************************************)
\* a query that only reads: `after` continues with the run once it has returned
queryStep(p, call, after(_)) ==
  LET r == run[p] IN
  /\ \/ run' = [run EXCEPT ![p] = after(called(r, call))]
     \/ run' = [run EXCEPT ![p] = fault(r, call)]
  /\ UNCHANGED <<db, seq, events>>

\* line 371
processUpdate_beginTransaction(p) ==
  /\ run[p].pc = "beginTransaction" /\ run[p].payload.kind = "update"
  /\ beginTransactionAsync(p, "getChallengeById")

\* lines 89-96: select * from project where project_id = id
getChallengeById(r, id) ==
  LET result == {row \in project : row.project_id = id}
  IN IF result # {}
     THEN [r EXCEPT !.challenge = Some(CHOOSE row \in result : TRUE), !.pc = "guard"]
     ELSE raise(r, ChallengeNotFound)

\* line 374
processUpdate_getChallengeById(p) ==
  /\ run[p].pc = "getChallengeById"
  /\ queryStep(p, "query:project", LAMBDA r : getChallengeById(r, r.payload.legacyId))

\* line 389
isUpdateTechsOf(category, isStudio, data) ==
  /\ category.name \notin {"Marathon Match", "Conceptualization", "Specification"}
  /\ ~isStudio
  /\ data.technologies # Undefined

\* variant of processUpdate_guard without the throw of lines 381-387
processUpdate_guard_NoTrackGuard(p) ==
  LET r == run[p]
      category == categoryOfId(r.challenge[1].project_category_id)
      isStudio == category[1].projectType = projectTypes.Studio
      isUpdateTechs == isUpdateTechsOf(category[1], isStudio, r.data[1])
  IN
  /\ r.pc = "guard"
  /\ run' = [run EXCEPT ![p] =
       IF category = Undefined THEN raise(r, TypeError)
       ELSE [r EXCEPT !.category = category, !.isStudio = isStudio,
                      !.isUpdateTechs = isUpdateTechs,
                      !.pc = IF r.payload.name # NULL \/ isUpdateTechs
                             THEN "getComponentVersionId" ELSE "commit"]]
  /\ UNCHANGED <<db, seq, events>>

\* lines 376-391: the category of the challenge, the track guard, what is to be updated
processUpdate_guard(p) ==
  LET r == run[p]
      category == categoryOfId(r.challenge[1].project_category_id)
      isStudio == category[1].projectType = projectTypes.Studio
      newCategory == categoryOfTrack(r.payload.track)
      isUpdateTechs == isUpdateTechsOf(category[1], isStudio, r.data[1])
  IN
  /\ r.pc = "guard"
  /\ run' = [run EXCEPT ![p] =
       IF category = Undefined THEN raise(r, TypeError)
       ELSE IF r.payload.track # NULL /\ newCategory = Undefined THEN raise(r, TypeError)
       ELSE IF r.payload.track # NULL /\ newCategory[1].id # category[1].id
       THEN raise(r, ChangeTypeError)
       ELSE [r EXCEPT !.category = category, !.isStudio = isStudio,
                      !.isUpdateTechs = isUpdateTechs,
                      !.pc = IF r.payload.name # NULL \/ isUpdateTechs
                             THEN "getComponentVersionId" ELSE "commit"]]
  /\ UNCHANGED <<db, seq, events>>

\* variant of getComponentVersionId without the throw of lines 107-109
getComponentVersionId_NoThrow(r, challengeId) ==
  LET result == {row \in project_info :
                   row.project_id = challengeId /\ row.project_info_type_id = 1}
  IN [r EXCEPT !.componentVersionId = IF result # {} THEN (CHOOSE row \in result : TRUE).value ELSE 0,
               !.pc = IF r.payload.name # NULL THEN "getComponentId" ELSE "deleteTechnologies"]

\* lines 104-111: select value from project_info where project_id = challengeId
\* and project_info_type_id = 1
getComponentVersionId(r, challengeId) ==
  LET result == {row \in project_info :
                   row.project_id = challengeId /\ row.project_info_type_id = 1}
  IN IF result # {}
     THEN [r EXCEPT !.componentVersionId = (CHOOSE row \in result : TRUE).value,
                    !.pc = IF r.payload.name # NULL THEN "getComponentId" ELSE "deleteTechnologies"]
     ELSE raise(r, NoComponentVersion)

\* line 392
processUpdate_getComponentVersionId(p) ==
  /\ run[p].pc = "getComponentVersionId"
  /\ queryStep(p, "query:project_info",
               LAMBDA r : getComponentVersionId(r, r.challenge[1].project_id))

\* lines 119-122: select component_id from comp_versions where comp_vers_id = ...;
\* result[0] is undefined when no row matches
getComponentId(r, componentVersionId) ==
  LET result == {row \in view(r).comp_versions : row.comp_vers_id = componentVersionId}
  IN IF result # {}
     THEN [r EXCEPT !.componentId = (CHOOSE row \in result : TRUE).component_id,
                    !.pc = "updateRecord"]
     ELSE raise(r, TypeError)

\* line 396
processUpdate_getComponentId(p) ==
  /\ run[p].pc = "getComponentId"
  /\ queryStep(p, "query:comp_versions", LAMBDA r : getComponentId(r, r.componentVersionId))

\* line 397
processUpdate_updateRecord(p) ==
  LET r == run[p] IN
  /\ r.pc = "updateRecord"
  /\ writeStep(p, [kind |-> "update", componentId |-> r.componentId, name |-> r.payload.name],
               "update:comp_catalog",
               LAMBDA x : [x EXCEPT !.pc = IF x.isUpdateTechs THEN "deleteTechnologies" ELSE "commit"])

\* variant of processUpdate_deleteTechnologies without the delete of line 403
processUpdate_deleteTechnologies_NoDelete(p) ==
  /\ run[p].pc = "deleteTechnologies"
  /\ run' = [run EXCEPT ![p] = loopOver(run[p], run[p].data[1].technologies[1])]
  /\ UNCHANGED <<db, seq, events>>

\* lines 401-405
processUpdate_deleteTechnologies(p) ==
  LET r == run[p] IN
  /\ r.pc = "deleteTechnologies"
  /\ writeStep(p, [kind |-> "delete", componentVersionId |-> r.componentVersionId,
                   rows |-> deletedRows(view(r), r.componentVersionId)],
               "delete:comp_technology", LAMBDA x : loopOver(x, x.data[1].technologies[1]))

\* line 408
processUpdate_techId(p) ==
  /\ run[p].pc = "techId" /\ run[p].payload.kind = "update"
  /\ nextIdStep(p, "COMPTECH_SEQ", "nextId:COMPTECH_SEQ", "insertTech",
                LAMBDA r, id : [r EXCEPT !.rowId = id])

\* lines 405-412
processUpdate_insertTech(p) ==
  LET r == run[p] IN
  /\ r.pc = "insertTech" /\ r.payload.kind = "update"
  /\ writeStep(p, [kind |-> "insert", table |-> "comp_technology",
                   row |-> [comp_tech_id |-> r.rowId, comp_vers_id |-> r.componentVersionId,
                            technology_type_id |-> Head(r.techs).id]],
               "insert:comp_technology", LAMBDA x : loopOver(x, Tail(x.techs)))

\* line 417
processUpdate_commit(p) ==
  /\ run[p].pc = "commit" /\ run[p].payload.kind = "update"
  /\ commitTransactionAsync(p)

\* lines 418-420
processUpdate_rollback(p) ==
  /\ run[p].pc = "catch" /\ run[p].payload.kind = "update"
  /\ rollbackTransactionAsync(p)

\* lines 421-423
processUpdate_close(p) ==
  /\ run[p].pc = "finally" /\ run[p].payload.kind = "update"
  /\ closeAsync(p)

processUpdate(p) ==
  \/ processUpdate_beginTransaction(p)
  \/ processUpdate_getChallengeById(p)
  \/ processUpdate_guard(p)
  \/ processUpdate_getComponentVersionId(p)
  \/ processUpdate_getComponentId(p)
  \/ processUpdate_updateRecord(p)
  \/ processUpdate_deleteTechnologies(p)
  \/ processUpdate_techId(p)
  \/ processUpdate_insertTech(p)
  \/ processUpdate_commit(p)
  \/ processUpdate_rollback(p)
  \/ processUpdate_close(p)

\* lines 132-213
parsePayload(p) ==
  \/ parsePayload_getRequest(p)
  \/ parsePayload_sync(p)
  \/ parsePayload_getTechnologies(p)
  \/ parsePayload_getPlatforms(p)

(***************************************************************************)
(* One worker processes the events one after the other.                    *)
(***************************************************************************)
Next ==
  \/ Start(1)
  \/ getInformixConnection(1)
  \/ getM2MToken(1)
  \/ parsePayload(1)
  \/ processCreate(1)
  \/ processUpdate(1)

Spec == Init /\ [][Next]_vars

(***************************************************************************)
(* parsePayload on prize-set lists: every list of at most MaxPrizeSets     *)
(* prize-sets of at most MaxPrizes prizes each, in an update event that    *)
(* carries nothing else.                                                   *)
(***************************************************************************)
PrizeValues == {1, 2}

PrizeLists == UNION {[1..n -> PrizeValues] : n \in 1..MaxPrizes}

PrizeSets ==
  { [type |-> type, prizes |-> prizes]
    : type \in {prizeSetTypes.CheckPoint, prizeSetTypes.Code, prizeSetTypes.F2F},
      prizes \in PrizeLists }

PrizeSetLists == UNION {[1..n -> PrizeSets] : n \in 1..MaxPrizeSets}

InitPrize ==
  /\ db = initialStore
  /\ seq = initialSequences
  /\ events = 1
  /\ \E prizeSets \in PrizeSetLists :
       LET payload == [kind |-> "update", legacyId |-> 1, typeId |-> NULL, track |-> NULL,
                       name |-> NULL, phases |-> <<>>, prizeSets |-> prizeSets, tags |-> {}]
       IN run = [p \in Procs |->
                   IF p = 1
                   THEN [idleRun EXCEPT !.pc = "parseSync", !.payload = payload,
                                        !.conn = "open",
                                        !.calls = <<"getInformixConnection", "getM2MToken">>,
                                        !.data = Some(newData(payload)), !.pre = initialStore]
                   ELSE idleRun]

NextPrize == parsePayload_sync(1)

SpecPrize == InitPrize /\ [][NextPrize]_vars

(***************************************************************************)
(* parsePayload on phase lists: every list of at most MaxPhases phases, in *)
(* an update event that carries nothing else.                              *)
(***************************************************************************)
MaxPhases == 3

PhaseNames == {"Registration", "submission", "Checkpoint", "review"}

PhaseDurations == {1, 2}

PhaseLists ==
  UNION { [1..n -> [name : PhaseNames, duration : PhaseDurations]] : n \in 1..MaxPhases }

InitPhases ==
  /\ db = initialStore
  /\ seq = initialSequences
  /\ events = 1
  /\ \E phases \in PhaseLists :
       LET payload == [kind |-> "update", legacyId |-> 1, typeId |-> NULL, track |-> NULL,
                       name |-> NULL, phases |-> phases, prizeSets |-> <<>>, tags |-> {}]
       IN run = [p \in Procs |->
                   IF p = 1
                   THEN [idleRun EXCEPT !.pc = "parseSync", !.payload = payload,
                                        !.conn = "open",
                                        !.calls = <<"getInformixConnection", "getM2MToken">>,
                                        !.data = Some(newData(payload)), !.pre = initialStore]
                   ELSE idleRun]

NextPhases == parsePayload_sync(1)

SpecPhases == InitPhases /\ [][NextPhases]_vars

(***************************************************************************)
(* getCategory on every pair of a track and a studio flag: each worker     *)
(* resolves the category of one pair, whatever the other worker resolves.  *)
(***************************************************************************)
CategoryTracks == DOMAIN projectCategories \cup {"DEVELOPMENT", "SPECIFICATION"}

\* the call of lines 244 and 221-230 on the arguments (track, isStudio)
getCategoryCall(p) ==
  /\ run[p].pc = "idle"
  /\ \E track \in CategoryTracks, isStudio \in BOOLEAN :
       run' = [run EXCEPT ![p] = [@ EXCEPT !.pc = "resolved",
                                           !.payload.track = track,
                                           !.isStudio = isStudio,
                                           !.category = Some(getCategory(track, isStudio))]]
  /\ UNCHANGED <<db, seq, events>>

NextCategory == \E p \in Procs : getCategoryCall(p)

SpecCategory == Init /\ [][NextCategory]_vars

(***************************************************************************)
(* Two workers, each on a connection of its own, handle up to              *)
(* MaxConcurrentEvents events between them, one after the other or at the  *)
(* same time: a create event and two updates of legacy challenge 1 that    *)
(* resync its technologies to different lists.                             *)
(***************************************************************************)
MaxConcurrentEvents == 2

createJava ==
  [kind |-> "create", legacyId |-> 0, typeId |-> "type-1", track |-> "CODE", name |-> "New1",
   phases |-> registrationAndSubmission, prizeSets |-> onePrizeSet, tags |-> {"Java"}]

resyncJava ==
  [kind |-> "update", legacyId |-> 1, typeId |-> NULL, track |-> NULL, name |-> NULL,
   phases |-> <<>>, prizeSets |-> <<>>, tags |-> {"Java"}]

resyncNode ==
  [kind |-> "update", legacyId |-> 1, typeId |-> NULL, track |-> NULL, name |-> "New2",
   phases |-> <<>>, prizeSets |-> <<>>, tags |-> {"Node.js", "AWS"}]

ConcurrentEvents == {createJava, resyncJava, resyncNode}

StartConcurrent(p) == dispatch(p, ConcurrentEvents, MaxConcurrentEvents)

NextConcurrent ==
  \E p \in Procs :
    \/ StartConcurrent(p)
    \/ getInformixConnection(p)
    \/ getM2MToken(p)
    \/ parsePayload(p)
    \/ processCreate(p)
    \/ processUpdate(p)

SpecConcurrent == Init /\ [][NextConcurrent]_vars

(***************************************************************************)
(* Two workers resync the technologies of legacy challenge 1 when its      *)
(* component version has no Technology Link, as after an update whose tags *)
(* matched no technology: the deletes of the two find no row.              *)
(***************************************************************************)
InitResync ==
  /\ db = deleteTechnologies(initialStore, 21)
  /\ seq = initialSequences
  /\ run = [p \in Procs |-> idleRun]
  /\ events = 0

StartResync(p) == dispatch(p, {resyncJava, resyncNode}, MaxConcurrentEvents)

NextResync ==
  \E p \in Procs :
    \/ StartResync(p)
    \/ getInformixConnection(p)
    \/ getM2MToken(p)
    \/ parsePayload(p)
    \/ processUpdate(p)

SpecResync == InitResync /\ [][NextResync]_vars

(***************************************************************************)
(* An update event is delivered twice: worker 1 handles it, and when it is *)
(* through worker 2 handles the same event.  The events are the updates    *)
(* that bring a name, tags, both or neither.                               *)
(***************************************************************************)
RepeatEvents ==
  {e \in UpdateEvents : e.track = NULL /\ e.typeId = NULL /\ e.phases = <<>> /\ e.prizeSets = <<>>}

StartFirst == dispatch(1, RepeatEvents, 1)

StartAgain ==
  /\ run[1].pc = "done"
  /\ events = 1
  /\ dispatch(2, {run[1].payload}, 2)

NextRepeat ==
  \/ StartFirst
  \/ StartAgain
  \/ \E p \in Procs :
       \/ getInformixConnection(p)
       \/ getM2MToken(p)
       \/ parsePayload(p)
       \/ processUpdate(p)

SpecRepeat == Init /\ [][NextRepeat]_vars

(***************************************************************************)
(* Vocabulary of the properties.                                           *)
(***************************************************************************)
Tables == {"comp_catalog", "comp_categories", "comp_versions", "comp_version_dates", "comp_technology"}

RowWrites ==
  { "insert:comp_catalog", "insert:comp_categories", "insert:comp_versions",
    "insert:comp_version_dates", "insert:comp_technology",
    "update:comp_catalog", "delete:comp_technology" }

\* the calls of run r that are among C
Issued(r, C) == {i \in DOMAIN r.calls : r.calls[i] \in C}

\* the transaction of run r has been committed
Committed(r) == "commit" \notin r.faults /\ Issued(r, {"commit"}) # {}

\* the ids of the active technologies named by the tags
MatchedTechnologies(tags) ==
  { technology_types[i].technology_type_id :
      i \in {j \in DOMAIN technology_types :
               technology_types[j].status_id = 1 /\ technology_types[j].technology_name \in tags} }

\* the rows of table t that the store has and the run's pre-event store has not
Gained(r, t) == db[t] \ r.pre[t]

\* the create event of run r gets Technology Links
CreateLinksTechnologies(r) ==
  /\ r.payload.track \notin {"MARATHON_MATCH", "CONCEPTUALIZATION", "SPECIFICATION"}
  /\ projectCategories[r.payload.track].projectType # projectTypes.Studio

\* the store is the pre-event store plus the complete row set of the create event of r
CompleteCreate(r) ==
  /\ \A t \in Tables : r.pre[t] \subseteq db[t]
  /\ \E row \in db.comp_catalog :
       /\ Gained(r, "comp_catalog") = {row}
       /\ row.component_id = r.componentId
       /\ row.component_name = r.payload.name
       /\ \A old \in r.pre.comp_catalog : old.component_id # row.component_id
  /\ \E row \in db.comp_categories :
       /\ Gained(r, "comp_categories") = {row}
       /\ row.component_id = r.componentId
  /\ \E row \in db.comp_versions :
       /\ Gained(r, "comp_versions") = {row}
       /\ row.component_id = r.componentId
       /\ row.comp_vers_id = r.componentVersionId
       /\ \A old \in r.pre.comp_versions : old.comp_vers_id # row.comp_vers_id
  /\ \E row \in db.comp_version_dates :
       /\ Gained(r, "comp_version_dates") = {row}
       /\ row.comp_vers_id = r.componentVersionId
  /\ \A row \in Gained(r, "comp_technology") : row.comp_vers_id = r.componentVersionId
  /\ LET expected == IF CreateLinksTechnologies(r) THEN MatchedTechnologies(r.payload.tags) ELSE {}
     IN /\ {row.technology_type_id : row \in Gained(r, "comp_technology")} = expected
        /\ Cardinality(Gained(r, "comp_technology")) = Cardinality(expected)

\* the category of the legacy challenge of an update event, Some(category) or Undefined
ChallengeCategory(legacyId) ==
  LET rows == {row \in project : row.project_id = legacyId}
  IN IF rows = {} THEN Undefined
     ELSE Some(CHOOSE c \in {projectCategories[k] : k \in DOMAIN projectCategories} :
                 \E row \in rows : c.id = row.project_category_id)

\* the component version linked to the legacy challenge, Some(id) or Undefined
ChallengeVersion(legacyId) ==
  LET rows == {row \in project_info : row.project_id = legacyId /\ row.project_info_type_id = 1}
  IN IF rows = {} THEN Undefined ELSE Some((CHOOSE row \in rows : TRUE).value)

\* technology resync applies to the update event of run r
ResyncApplies(r) ==
  /\ r.payload.tags # {}
  /\ ChallengeCategory(r.payload.legacyId) # Undefined
  /\ ChallengeCategory(r.payload.legacyId)[1].name
       \notin {"Marathon Match", "Conceptualization", "Specification"}
  /\ ChallengeCategory(r.payload.legacyId)[1].projectType # projectTypes.Studio

\* the Technology Links of component version v in store tables
LinksOf(tables, v) == {row \in tables.comp_technology : row.comp_vers_id = v}

\* the name of the target component is the payload's and no other Component row differs
NameUpdated(r) ==
  LET v == ChallengeVersion(r.payload.legacyId)[1]
      owners == {row.component_id : row \in {x \in r.pre.comp_versions : x.comp_vers_id = v}}
      target == {row \in db.comp_catalog : row.component_id \in owners}
  IN /\ Cardinality(owners) = 1
     /\ Cardinality(target) = 1
     /\ \A row \in target : row.component_name = r.payload.name
     /\ {row \in db.comp_catalog : row.component_id \notin owners}
          = {row \in r.pre.comp_catalog : row.component_id \notin owners}
     /\ {[row EXCEPT !.component_name = ""] : row \in db.comp_catalog}
          = {[row EXCEPT !.component_name = ""] : row \in r.pre.comp_catalog}

\* the Technology Links of the target version are replaced, all others kept
TechnologiesReplaced(r) ==
  LET v == ChallengeVersion(r.payload.legacyId)[1]
      expected == MatchedTechnologies(r.payload.tags)
  IN /\ LinksOf(db, v) \cap LinksOf(r.pre, v) = {}
     /\ \A new \in LinksOf(db, v) : \A old \in r.pre.comp_technology : new.comp_tech_id # old.comp_tech_id
     /\ {row.technology_type_id : row \in LinksOf(db, v)} = expected
     /\ Cardinality(LinksOf(db, v)) = Cardinality(expected)
     /\ db.comp_technology \ LinksOf(db, v) = r.pre.comp_technology \ LinksOf(r.pre, v)

\* the store is the pre-event store with the complete change of the update event of r
CompleteUpdate(r) ==
  /\ \A t \in Tables \ {"comp_catalog", "comp_technology"} : db[t] = r.pre[t]
  /\ IF r.payload.name # NULL THEN NameUpdated(r) ELSE db.comp_catalog = r.pre.comp_catalog
  /\ IF ResyncApplies(r) THEN TechnologiesReplaced(r) ELSE db.comp_technology = r.pre.comp_technology

Complete(r) == IF r.payload.kind = "create" THEN CompleteCreate(r) ELSE CompleteUpdate(r)

(***************************************************************************)
(* C1. Atomicity of one event: whatever step of processCreate or           *)
(* processUpdate fails (an id allocation, a row write, the last planned    *)
(* row write, the commit), the committed store is at every moment either   *)
(* the pre-event store or the pre-event store with the event's complete    *)
(* row set, the latter only once the transaction has been committed.       *)
(***************************************************************************)
C1_Atomic ==
  \A p \in Procs :
    run[p].pc # "idle" =>
      \/ db = run[p].pre
      \/ Committed(run[p]) /\ Complete(run[p])

\* the insert of the last Technology Link of a create event failed after the
\* other rows had been written, and the store is the pre-event store
C1_Witness ==
  /\ run[1].pc = "done"
  /\ run[1].payload.kind = "create"
  /\ run[1].faults = {"insert:comp_technology"}
  /\ Len(run[1].techs) = 1
  /\ Cardinality(Issued(run[1], {"insert:comp_technology"})) = 2
  /\ Issued(run[1], {"rollback"}) # {}
  /\ db = run[1].pre

(***************************************************************************)
(* C2. Connection release on every exit path: in every finished run of     *)
(* processCreate or processUpdate that obtained the Informix connection,   *)
(* closeAsync has been called on it exactly once.                          *)
(***************************************************************************)
C2_ClosedOnEveryExit ==
  \A p \in Procs :
    run[p].pc = "done" /\ run[p].conn # "none" => run[p].closes = 1

(***************************************************************************)
(* C3. Rollback then re-raise unchanged: when a step between               *)
(* beginTransaction and commit fails, rollback is called before close and  *)
(* the caller receives the error of the failing step, also when the        *)
(* rollback itself fails (the close succeeding).                           *)
(***************************************************************************)
C3_ReraisedUnchanged ==
  \A p \in Procs :
    run[p].pc = "done" /\ run[p].err # NoError /\ "close" \notin run[p].faults =>
      /\ \E i \in Issued(run[p], {"rollback"}) : \A j \in Issued(run[p], {"close"}) : i < j
      /\ run[p].thrown = run[p].err

(***************************************************************************)
(* C4. Create row set: a create event that commits adds exactly one        *)
(* Component, one Category Link, one Component Version and one Version     *)
(* Dates row for the newly allocated component id, and one Technology Link *)
(* per matched technology when the track is outside {Marathon Match,       *)
(* Conceptualization, Specification} and not studio, none otherwise.       *)
(***************************************************************************)
C4_CreateRowSet ==
  \A p \in Procs :
    run[p].payload.kind = "create" /\ Committed(run[p]) => CompleteCreate(run[p])

\* a committed Code challenge with two matched technologies
C4_Witness ==
  /\ run[1].pc = "done"
  /\ run[1].payload.kind = "create"
  /\ run[1].payload.track = "CODE"
  /\ run[1].thrown = NoError
  /\ Committed(run[1])
  /\ Cardinality(Gained(run[1], "comp_technology")) = 2
  /\ Cardinality(Gained(run[1], "comp_catalog")) = 1

(***************************************************************************)
(* C5. Technology replacement on update: when an update event that         *)
(* supplies tags commits and technology resync applies, none of the        *)
(* Technology Links the component version had before remains, it has       *)
(* exactly one Technology Link per matched technology, and the Technology  *)
(* Links of every other component version are unchanged.                   *)
(***************************************************************************)
C5_TechnologyReplacement ==
  \A p \in Procs :
    run[p].payload.kind = "update" /\ Committed(run[p]) /\ ResyncApplies(run[p])
      => TechnologiesReplaced(run[p])

\* the two old links of version 21 are gone and two new ones are there
C5_Witness ==
  /\ run[1].pc = "done"
  /\ run[1].payload.kind = "update"
  /\ run[1].payload.legacyId = 1
  /\ run[1].payload.tags = {"Java", "Node.js", "AWS"}
  /\ Committed(run[1])
  /\ Cardinality(LinksOf(run[1].pre, 21)) = 2
  /\ Cardinality(LinksOf(db, 21)) = 2
  /\ LinksOf(db, 21) \cap LinksOf(run[1].pre, 21) = {}

(***************************************************************************)
(* C6. Name-only update: when an update event that supplies a name and no  *)
(* tags commits, exactly one Component row, the one owning the component   *)
(* version linked to the legacy challenge, has the payload's name, no      *)
(* other Component row or column differs, and the Technology Links are     *)
(* the ones from before the event.                                         *)
(***************************************************************************)
C6_NameOnlyUpdate ==
  \A p \in Procs :
    /\ run[p].payload.kind = "update"
    /\ Committed(run[p])
    /\ run[p].payload.name # NULL
    /\ run[p].payload.tags = {}
    => /\ NameUpdated(run[p])
       /\ db.comp_technology = run[p].pre.comp_technology

\* component 11 of legacy challenge 1 was renamed
C6_Witness ==
  /\ run[1].pc = "done"
  /\ run[1].payload.kind = "update"
  /\ run[1].payload.legacyId = 1
  /\ run[1].payload.name = "New2"
  /\ run[1].payload.tags = {}
  /\ Committed(run[1])
  /\ \E row \in db.comp_catalog : row.component_id = 11 /\ row.component_name = "New2"
  /\ \E row \in run[1].pre.comp_catalog : row.component_id = 11 /\ row.component_name = "Old1"

\* the update event of run r names a track of another category than the challenge's
TrackChanges(r) ==
  /\ r.payload.kind = "update"
  /\ r.payload.track # NULL
  /\ ChallengeCategory(r.payload.legacyId) # Undefined
  /\ r.payload.track \in DOMAIN projectCategories
  /\ projectCategories[r.payload.track].id # ChallengeCategory(r.payload.legacyId)[1].id

\* every external call of run r so far succeeded and the transaction was begun
ReachedTransaction(r) == r.faults = {} /\ Issued(r, {"beginTransaction"}) # {}

IdAllocations ==
  { "nextId:COMPONENT_SEQ", "nextId:COMPCATEGORY_SEQ", "nextId:COMPVERSION_SEQ",
    "nextId:COMPVERSIONDATES_SEQ", "nextId:COMPTECH_SEQ" }

(***************************************************************************)
(* C7. Track-change guard: an update event that supplies a track whose     *)
(* category id differs from that of the existing legacy challenge issues   *)
(* no row insert, update or delete and no id allocation, leaves the store  *)
(* as it was, and fails; when it gets as far as the transaction and no     *)
(* external call fails, it fails with the immutable-field error.           *)
(***************************************************************************)
C7_TrackChangeGuard ==
  \A p \in Procs :
    TrackChanges(run[p]) =>
      /\ Issued(run[p], RowWrites \cup IdAllocations) = {}
      /\ db = run[p].pre
      /\ run[p].pc = "done" => run[p].thrown # NoError
      /\ run[p].pc = "done" /\ ReachedTransaction(run[p]) => run[p].thrown = ChangeTypeError

\* a Code challenge is told to become a Marathon Match
C7_Witness ==
  /\ run[1].pc = "done"
  /\ TrackChanges(run[1])
  /\ run[1].payload.legacyId = 1
  /\ run[1].payload.track = "MARATHON_MATCH"
  /\ run[1].payload.name # NULL
  /\ run[1].thrown = ChangeTypeError
  /\ Issued(run[1], {"rollback"}) # {}

\* the legacy id of the update event of run r is the id of no challenge
UnknownChallenge(r) ==
  r.payload.kind = "update" /\ ChallengeCategory(r.payload.legacyId) = Undefined

\* the challenge of the update event of run r exists and has no component version entry
NoVersionEntry(r) ==
  /\ r.payload.kind = "update"
  /\ ChallengeCategory(r.payload.legacyId) # Undefined
  /\ ChallengeVersion(r.payload.legacyId) = Undefined

MultiplePrizeSets(r) ==
  Cardinality({i \in DOMAIN r.payload.prizeSets :
                 r.payload.prizeSets[i].type # prizeSetTypes.CheckPoint}) > 1

\* the phase list of the event of run r, if any, has a registration and a submission phase
PhasesComplete(r) ==
  \/ r.payload.phases = <<>>
  \/ /\ \E i \in DOMAIN r.payload.phases : toLowerCase(r.payload.phases[i].name) = "registration"
     /\ \E i \in DOMAIN r.payload.phases : toLowerCase(r.payload.phases[i].name) = "submission"

(***************************************************************************)
(* C9. Multiple prize-sets: a create or update event that carries more     *)
(* than one non-checkpoint prize-set never begins a transaction, issues no *)
(* row write, leaves the store unchanged and fails; when no external call  *)
(* fails before the prize-sets are looked at, it fails with the            *)
(* invalid-prize error.                                                    *)
(***************************************************************************)
C9_MultiplePrizeSets ==
  \A p \in Procs :
    run[p].pc # "idle" /\ MultiplePrizeSets(run[p]) =>
      /\ Issued(run[p], {"beginTransaction"} \cup RowWrites \cup IdAllocations) = {}
      /\ ~run[p].inTx
      /\ db = run[p].pre
      /\ run[p].pc = "done" => run[p].thrown # NoError
      /\ run[p].pc = "done" /\ run[p].faults = {} /\ PhasesComplete(run[p])
           => run[p].thrown = InvalidPrizeError

\* a create event with a Code and a First to Finish prize-set was refused
C9_Witness ==
  /\ run[1].pc = "done"
  /\ run[1].payload.kind = "create"
  /\ MultiplePrizeSets(run[1])
  /\ run[1].thrown = InvalidPrizeError
  /\ run[1].faults = {}
  /\ Issued(run[1], {"getRequest"}) # {}

\* the positions of s that hold v
Positions(s, v) == {i \in DOMAIN s : s[i] = v}

\* out holds the values of in, each as often, in descending order
SortedDescending(in, out) ==
  /\ Len(out) = Len(in)
  /\ \A i \in DOMAIN in : Cardinality(Positions(out, in[i])) = Cardinality(Positions(in, in[i]))
  /\ \A i \in DOMAIN out : \A j \in DOMAIN out : i < j => out[i] >= out[j]

(***************************************************************************)
(* C10. Prize derivation: for every prize-set list with at most one        *)
(* non-checkpoint set parsePayload returns, with numberOfCheckpointPrizes  *)
(* the number of entries of the (first) checkpoint set and checkpointPrize *)
(* the value of its first entry, both 0 without a checkpoint set, and      *)
(* prizes the values of the non-checkpoint set in descending order, or     *)
(* [0] without one; prizes is never empty.                                 *)
(***************************************************************************)
C10_PrizeDerivation ==
  LET r == run[1]
      prizeSets == r.payload.prizeSets
      checkpoint == {i \in DOMAIN prizeSets : prizeSets[i].type = prizeSetTypes.CheckPoint}
      first == CHOOSE i \in checkpoint : \A j \in checkpoint : i <= j
      others == DOMAIN prizeSets \ checkpoint
      data == r.data[1]
  IN r.pc # "parseSync" /\ prizeSets # <<>> /\ Cardinality(others) <= 1 =>
       /\ r.pc # "done"
       /\ data.numberOfCheckpointPrizes =
            IF checkpoint = {} THEN Some(0) ELSE Some(Len(prizeSets[first].prizes))
       /\ data.checkpointPrize =
            IF checkpoint = {} THEN Some(0) ELSE Some(prizeSets[first].prizes[1])
       /\ data.prizes # Undefined
       /\ data.prizes[1] # <<>>
       /\ IF others = {} THEN data.prizes[1] = <<0>>
          ELSE \A i \in others : SortedDescending(prizeSets[i].prizes, data.prizes[1])

\* a checkpoint set of two prizes and a prize-set given in ascending order
C10_Witness ==
  /\ run[1].pc = "beginTransaction"
  /\ Len(run[1].payload.prizeSets) = 2
  /\ run[1].payload.prizeSets[1] = [type |-> prizeSetTypes.CheckPoint, prizes |-> <<2, 1>>]
  /\ run[1].payload.prizeSets[2] = [type |-> prizeSetTypes.Code, prizes |-> <<1, 2>>]
  /\ run[1].data[1].numberOfCheckpointPrizes = Some(2)
  /\ run[1].data[1].checkpointPrize = Some(2)
  /\ run[1].data[1].prizes = Some(<<2, 1>>)

\* the Application / Business Layer pair and the not-categorized pair
ApplicationPair ==
  [rootCategory |-> componentCategories.Application, category |-> componentCategories.BusinessLayer]

NotSetPair ==
  [rootCategory |-> componentCategories.NotSetParent, category |-> componentCategories.NotSet]

(***************************************************************************)
(* C11. Category resolution: getCategory returns the Application /         *)
(* Business Layer pair exactly when the track is none of Marathon Match,   *)
(* Design, Development and the studio flag is false, and the               *)
(* not-categorized pair in every other case; two calls on the same track   *)
(* and flag return the same pair.                                          *)
(***************************************************************************)
C11_CategoryResolution ==
  /\ ApplicationPair # NotSetPair
  /\ \A p \in Procs :
       run[p].pc = "resolved" =>
         /\ run[p].category \in {Some(ApplicationPair), Some(NotSetPair)}
         /\ run[p].category = Some(ApplicationPair)
              <=> /\ run[p].payload.track \notin {"MARATHON_MATCH", "DESIGN", "DEVELOPMENT"}
                  /\ ~run[p].isStudio
  /\ \A p, q \in Procs :
       /\ run[p].pc = "resolved" /\ run[q].pc = "resolved"
       /\ run[p].payload.track = run[q].payload.track
       /\ run[p].isStudio = run[q].isStudio
       => run[p].category = run[q].category

\* a studio track outside the three gets the not-categorized pair, a code track the other
C11_Witness ==
  /\ run[1].pc = "resolved" /\ run[2].pc = "resolved"
  /\ run[1].payload.track = "WEB_DESIGNS" /\ run[1].isStudio
  /\ run[1].category = Some(NotSetPair)
  /\ run[2].payload.track = "CODE" /\ ~run[2].isStudio
  /\ run[2].category = Some(ApplicationPair)

\* the calls of the transformation and those of the transaction
TransformCalls == {"getRequest", "query:technology_types", "query:project_platform_lu"}

TransactionCalls ==
  {"beginTransaction", "commit", "rollback"} \cup RowWrites \cup IdAllocations
    \cup {"query:project", "query:project_info", "query:comp_versions"}

\* the transaction of run r was begun / has been rolled back
Begun(r) == "beginTransaction" \notin r.faults /\ Issued(r, {"beginTransaction"}) # {}

RolledBack(r) == "rollback" \notin r.faults /\ Issued(r, {"rollback"}) # {}

\* run r never calls rollback after a commit that succeeded
NoRollbackAfterCommit(r) == Committed(r) => Issued(r, {"rollback"}) = {}

\* run r calls rollback only on a connection whose transaction was begun
RollbackOnlyInTransaction(r) == Issued(r, {"rollback"}) # {} => Begun(r)

\* once run r is over, closeAsync was called after the commit or rollback
ClosedAfterwards(r) ==
  r.pc = "done" /\ Issued(r, {"commit", "rollback"}) # {} =>
    \E j \in Issued(r, {"close"}) : \A i \in Issued(r, {"commit", "rollback"}) : i < j

(***************************************************************************)
(* C12. Flow state machine: an event is transformed before its transaction *)
(* starts, and once it has got to its transaction it ends either committed *)
(* or rolled back, never both; rollback                                    *)
(* is never called after a successful commit nor on a connection whose     *)
(* transaction was never begun; the connection is closed after the commit  *)
(* or the rollback.                                                        *)
(***************************************************************************)
C12_FlowStateMachine ==
  \A p \in Procs :
    LET r == run[p] IN
    /\ \A i \in Issued(r, TransformCalls), j \in Issued(r, TransactionCalls) : i < j
    /\ r.pc = "done" /\ Issued(r, {"beginTransaction"}) # {} => (Committed(r) \/ RolledBack(r))
    /\ ~(Committed(r) /\ RolledBack(r))
    /\ NoRollbackAfterCommit(r)
    /\ RollbackOnlyInTransaction(r)
    /\ ClosedAfterwards(r)

\* run r ended in parsePayload on a phase list without a registration or submission phase
FailedOnMissingPhase(r) ==
  /\ r.pc = "done"
  /\ ~PhasesComplete(r)
  /\ r.thrown = TypeError
  /\ Issued(r, {"beginTransaction"}) = {}

(***************************************************************************)
(* C13. Phase-list precondition: every event the create or update schema   *)
(* accepts that carries a phase list has a registration and a submission   *)
(* phase in it, and parsePayload never fails on a missing one (looked at   *)
(* in the runs in which no external call fails).                           *)
(***************************************************************************)
C13_PhaseListPrecondition ==
  \A p \in Procs :
    run[p].pc = "done" /\ run[p].payload.phases # <<>> /\ run[p].faults = {} =>
      /\ PhasesComplete(run[p])
      /\ ~FailedOnMissingPhase(run[p])

\* the rows of table `name` of the committed store created since the start
Created(name) == db[name] \ initialStore[name]

\* every row of `rows` names, in column `column`, the `key` of a row of `owners`
References(rows, column, owners, key) ==
  \A row \in rows : \E owner \in owners : owner[key] = row[column]

(***************************************************************************)
(* C14. Referential consistency: in every committed state, after any       *)
(* events handled one after the other or at the same time, with failures   *)
(* at any step, every Category Link and Component Version row names an     *)
(* existing Component, every Version Dates and Technology Link row names   *)
(* an existing Component Version, and every component created since the    *)
(* start has exactly one Category Link and one Component Version, of       *)
(* version 1, with exactly one Version Dates row.                          *)
(***************************************************************************)
C14_ReferentialConsistency ==
  /\ References(db.comp_categories, "component_id", db.comp_catalog, "component_id")
  /\ References(db.comp_versions, "component_id", db.comp_catalog, "component_id")
  /\ References(db.comp_version_dates, "comp_vers_id", db.comp_versions, "comp_vers_id")
  /\ References(db.comp_technology, "comp_vers_id", db.comp_versions, "comp_vers_id")
  /\ \A c \in Created("comp_catalog") :
       /\ Cardinality({l \in db.comp_categories : l.component_id = c.component_id}) = 1
       /\ Cardinality({v \in db.comp_versions : v.component_id = c.component_id}) = 1
       /\ \A v \in db.comp_versions :
            v.component_id = c.component_id =>
              /\ v.version = 1
              /\ Cardinality({d \in db.comp_version_dates : d.comp_vers_id = v.comp_vers_id}) = 1

\* a create event committed next to an update that failed after its delete and rolled back
C14_Witness ==
  /\ run[1].pc = "done" /\ run[1].payload.kind = "create" /\ Committed(run[1])
  /\ Created("comp_catalog") # {}
  /\ Created("comp_technology") # {}
  /\ run[2].pc = "done" /\ run[2].payload.kind = "update"
  /\ "insert:comp_technology" \in run[2].faults
  /\ Issued(run[2], {"delete:comp_technology"}) # {}

\* the id column and the sequence of each table
KeyOf ==
  [ comp_catalog |-> "component_id", comp_categories |-> "comp_categories_id",
    comp_versions |-> "comp_vers_id", comp_version_dates |-> "comp_version_dates_id",
    comp_technology |-> "comp_tech_id" ]

SequenceOf ==
  [ comp_catalog |-> "COMPONENT_SEQ", comp_categories |-> "COMPCATEGORY_SEQ",
    comp_versions |-> "COMPVERSION_SEQ", comp_version_dates |-> "COMPVERSIONDATES_SEQ",
    comp_technology |-> "COMPTECH_SEQ" ]

\* the id under which the k-th insert of run r put its row
InsertedId(r, k) == r.inserted[k].row[KeyOf[r.inserted[k].table]]

\* the k-th insert of run r uses the id of the k-th allocation of r, from the table's sequence
OwnAllocation(r) ==
  /\ Len(r.inserted) <= Len(r.allocated)
  /\ \A k \in DOMAIN r.inserted :
       /\ r.allocated[k].sequence = SequenceOf[r.inserted[k].table]
       /\ r.allocated[k].id = InsertedId(r, k)

\* no two inserts of runs r and s into one table, other than the same insert, use one id
DistinctInserts(r, s, same) ==
  \A k \in DOMAIN r.inserted, l \in DOMAIN s.inserted :
    /\ r.inserted[k].table = s.inserted[l].table
    /\ InsertedId(r, k) = InsertedId(s, l)
    => same /\ k = l

\* an insert of run r that is not committed uses the id of no committed row
FreshInserts(r) ==
  ~Committed(r) =>
    \A k \in DOMAIN r.inserted :
      \A row \in db[r.inserted[k].table] : row[KeyOf[r.inserted[k].table]] # InsertedId(r, k)

(***************************************************************************)
(* C15. Surrogate-key uniqueness: with an allocator that never repeats a   *)
(* value of a sequence, in every sequence or interleaving of events,       *)
(* rolled back ones included, every inserted row has the id of an          *)
(* allocator call of its own, made on the sequence of its row kind; no     *)
(* allocated id is used for two inserts; and no two rows of a table of the *)
(* store share an id.                                                      *)
(***************************************************************************)
C15_SurrogateKeys ==
  /\ \A p \in Procs : OwnAllocation(run[p]) /\ FreshInserts(run[p])
  /\ \A p, q \in Procs : DistinctInserts(run[p], run[q], p = q)
  /\ \A name \in Tables : \A a, b \in db[name] : a[KeyOf[name]] = b[KeyOf[name]] => a = b

\* a create that rolled back after its inserts, next to a create that committed
C15_Witness ==
  /\ run[1].pc = "done" /\ run[1].payload.kind = "create" /\ "commit" \in run[1].faults
  /\ Len(run[1].inserted) = 5
  /\ run[2].pc = "done" /\ run[2].payload.kind = "create" /\ Committed(run[2])
  /\ Len(run[2].inserted) = 5
  /\ \E k \in DOMAIN run[2].allocated : run[2].allocated[k].id < run[1].allocated[k].id

\* the place of each row write in the create flow
Rank ==
  [ c \in RowWrites |->
      CASE c = "insert:comp_catalog" -> 1
        [] c = "insert:comp_categories" -> 2
        [] c = "insert:comp_versions" -> 3
        [] c = "insert:comp_version_dates" -> 4
        [] c = "insert:comp_technology" -> 5
        [] OTHER -> 0 ]

\* the row writes of run r come in the create flow's order, none left out, none twice
\* but the Technology Links
InCreateOrder(r) ==
  \A j \in Issued(r, RowWrites) :
    /\ Rank[r.calls[j]] >= 1
    /\ Rank[r.calls[j]] > 1 =>
         \E i \in Issued(r, RowWrites) : i < j /\ Rank[r.calls[i]] = Rank[r.calls[j]] - 1
    /\ \A i \in Issued(r, RowWrites) :
         i < j => \/ Rank[r.calls[i]] < Rank[r.calls[j]]
                  \/ Rank[r.calls[i]] = 5 /\ Rank[r.calls[j]] = 5

\* every row write of run r comes after beginTransaction, which succeeded, and before commit
InsideTransaction(r) ==
  \A j \in Issued(r, RowWrites) :
    /\ Begun(r)
    /\ \E i \in Issued(r, {"beginTransaction"}) : i < j
    /\ \A i \in Issued(r, {"commit"}) : j < i

\* the rows written by run r are statements of its connection's transaction and
\* reach the committed store by the commit only
OnOneConnection(r) ==
  /\ r.inTx => Len(r.log) = Len(r.inserted) /\ r.conn = "open"
  /\ ~Committed(r) => db = r.pre

\* a row of run r that names a component or a component version comes after the
\* row of that component or version
OwnersFirst(r) ==
  \A k \in DOMAIN r.inserted :
    LET w == r.inserted[k] IN
    /\ w.table \in {"comp_categories", "comp_versions"} =>
         \E j \in 1..(k - 1) : /\ r.inserted[j].table = "comp_catalog"
                               /\ r.inserted[j].row.component_id = w.row.component_id
    /\ w.table \in {"comp_version_dates", "comp_technology"} =>
         \E j \in 1..(k - 1) : /\ r.inserted[j].table = "comp_versions"
                               /\ r.inserted[j].row.comp_vers_id = w.row.comp_vers_id

\* after a call of run r that failed come only the rollback and the close
StopsAtFailure(r) ==
  \A i \in DOMAIN r.calls :
    /\ r.calls[i] \in r.faults
    /\ \A j \in DOMAIN r.calls : r.calls[j] = r.calls[i] => j <= i
    => \A j \in DOMAIN r.calls : j > i => r.calls[j] \in {"rollback", "close"}

(***************************************************************************)
(* C16. Create write ordering: in processCreate every row write comes      *)
(* after beginTransaction and before commit, on the connection of the      *)
(* event, in the order Component, Category Link, Component Version,        *)
(* Version Dates, Technology Links; a row that names a component or a      *)
(* component version is written after the row that owns the id; and once a *)
(* step has failed no later write is issued.                               *)
(***************************************************************************)
C16_CreateWriteOrdering ==
  \A p \in Procs :
    run[p].payload.kind = "create" =>
      /\ InsideTransaction(run[p])
      /\ InCreateOrder(run[p])
      /\ OnOneConnection(run[p])
      /\ OwnersFirst(run[p])
      /\ StopsAtFailure(run[p])

\* a create that wrote its four rows and one Technology Link, and failed on the next
C16_Witness ==
  /\ run[1].pc = "done" /\ run[1].payload.kind = "create"
  /\ Len(run[1].inserted) = 5
  /\ run[1].faults = {"insert:comp_technology"}
  /\ Cardinality(Issued(run[1], {"insert:comp_technology"})) = 2
  /\ RolledBack(run[1])

\* the statements of run r are a rename of a Component, a delete of Technology Links of
\* the target component version, or an insert of a Technology Link
UpdateStatementsOnly(r) ==
  /\ Issued(r, RowWrites)
       \subseteq Issued(r, {"update:comp_catalog", "delete:comp_technology", "insert:comp_technology"})
  /\ \A k \in DOMAIN r.log :
       \/ r.log[k].kind = "update"
       \/ /\ r.log[k].kind = "delete"
          /\ ChallengeVersion(r.payload.legacyId) # Undefined
          /\ \A row \in r.log[k].rows : row.comp_vers_id = ChallengeVersion(r.payload.legacyId)[1]
       \/ r.log[k].kind = "insert" /\ r.log[k].table = "comp_technology"

\* the store differs from the one run r started on in Component names and in Technology
\* Links only, and the Technology Links gone are those of the target component version
UpdateFrame(r) ==
  /\ \A name \in {"comp_categories", "comp_versions", "comp_version_dates"} : db[name] = r.pre[name]
  /\ {row.component_id : row \in db.comp_catalog} = {row.component_id : row \in r.pre.comp_catalog}
  /\ Cardinality(db.comp_catalog) = Cardinality(r.pre.comp_catalog)
  /\ {[row EXCEPT !.component_name = ""] : row \in db.comp_catalog}
       = {[row EXCEPT !.component_name = ""] : row \in r.pre.comp_catalog}
  /\ \A row \in r.pre.comp_technology \ db.comp_technology :
       /\ ChallengeVersion(r.payload.legacyId) # Undefined
       /\ row.comp_vers_id = ChallengeVersion(r.payload.legacyId)[1]

\* the update event of run r has a challenge, keeps its track, and parsePayload accepts it
Processable(r) ==
  /\ ~UnknownChallenge(r)
  /\ ~TrackChanges(r)
  /\ ~MultiplePrizeSets(r)
  /\ PhasesComplete(r)

(***************************************************************************)
(* C17. Update frame: a processUpdate run, committed or rolled back,       *)
(* inserts and deletes no Component, Category Link, Component Version or   *)
(* Version Dates row and changes no column of them but the Component name; *)
(* the only rows it deletes are Technology Links of the target component   *)
(* version; and an update event with neither a name nor a technology       *)
(* resync issues no row write, and commits when the event is processable   *)
(* and no external call fails.                                             *)
(***************************************************************************)
C17_UpdateFrame ==
  \A p \in Procs :
    LET r == run[p] IN
    r.payload.kind = "update" =>
      /\ UpdateStatementsOnly(r)
      /\ UpdateFrame(r)
      /\ r.payload.name = NULL /\ ~ResyncApplies(r) =>
           /\ Issued(r, RowWrites) = {}
           /\ db = r.pre
           /\ r.pc = "done" /\ r.faults = {} /\ Processable(r) =>
                Committed(r) /\ r.thrown = NoError

\* an update of a Marathon Match challenge that brings tags and no name committed nothing
C17_Witness ==
  /\ run[1].pc = "done" /\ run[1].payload.kind = "update"
  /\ run[1].payload.legacyId = 2
  /\ run[1].payload.name = NULL
  /\ run[1].payload.tags # {}
  /\ ~ResyncApplies(run[1])
  /\ Committed(run[1])
  /\ Issued(run[1], RowWrites) = {}
  /\ db = run[1].pre

(***************************************************************************)
(* C18. Transformer error propagation: when parsePayload fails on an       *)
(* upstream HTTP failure with a response message, the caller gets an error *)
(* with exactly that message; on every other failure inside parsePayload,  *)
(* an HTTP failure without a response message included, the caller gets    *)
(* the original error.                                                     *)
(***************************************************************************)
C18_TransformerErrors ==
  \A p \in Procs :
    run[p].parseErr # NoError =>
      /\ run[p].pc = "done"
      /\ run[p].thrown = IF run[p].parseErr = HttpWithMessage THEN UpstreamMessage
                         ELSE run[p].parseErr

\* the phase list has a phase of the given lower-case name
HasPhase(phases, name) == \E i \in DOMAIN phases : toLowerCase(phases[i].name) = name

\* a DTO field that is set and not null
NonNull(field) == field # Undefined /\ field # Null

(***************************************************************************)
(* C19. DTO timestamp invariant: for every payload with a phase list, the  *)
(* DTO parsePayload returns has registrationStartsAt, registrationEndsAt   *)
(* and submissionEndsAt, and its checkpointSubmissionStartsAt and          *)
(* checkpointSubmissionEndsAt are both non-null when the list has a        *)
(* checkpoint phase and both null when it has none.                        *)
(***************************************************************************)
C19_DtoTimestamps ==
  LET r == run[1]
      data == r.data[1]
  IN r.pc \notin {"idle", "parseSync", "done"} /\ r.payload.phases # <<>> =>
       /\ data.registrationStartsAt # Undefined
       /\ data.registrationEndsAt # Undefined
       /\ data.submissionEndsAt # Undefined
       /\ IF HasPhase(r.payload.phases, "checkpoint")
          THEN /\ NonNull(data.checkpointSubmissionStartsAt)
               /\ NonNull(data.checkpointSubmissionEndsAt)
          ELSE /\ data.checkpointSubmissionStartsAt = Null
               /\ data.checkpointSubmissionEndsAt = Null

\* a list of a checkpoint, a submission and a registration phase was transformed
C19_Witness ==
  /\ run[1].pc = "beginTransaction"
  /\ Len(run[1].payload.phases) = 3
  /\ run[1].payload.phases[1] = [name |-> "Checkpoint", duration |-> 2]
  /\ run[1].payload.phases[3].name = "Registration"
  /\ run[1].data[1].registrationStartsAt = Some(Now)
  /\ run[1].data[1].submissionEndsAt # Undefined
  /\ run[1].data[1].checkpointSubmissionEndsAt = Some(Some(Now + 2))

\* the Technology Links of version v in the store are one per technology matched by tags
MatchesEvent(v, tags) ==
  /\ {row.technology_type_id : row \in LinksOf(db, v)} = MatchedTechnologies(tags)
  /\ Cardinality(LinksOf(db, v)) = Cardinality(MatchedTechnologies(tags))

\* runs r and s are two committed technology resyncs of one legacy challenge
BothResynced(r, s) ==
  /\ r.pc = "done" /\ s.pc = "done"
  /\ r.payload.kind = "update" /\ s.payload.kind = "update"
  /\ r.payload.legacyId = s.payload.legacyId
  /\ ResyncApplies(r) /\ ResyncApplies(s)
  /\ Committed(r) /\ Committed(s)

(***************************************************************************)
(* C20. Concurrent technology resync: when two update events that both     *)
(* resync the technologies of one legacy challenge are handled at the same *)
(* time on two connections and both commit, the Technology Links of the    *)
(* component version are those of exactly one of the two events, never a   *)
(* union or mixture, and no Technology Link from before the events is      *)
(* left.                                                                   *)
(***************************************************************************)
C20_ConcurrentResync ==
  \A p, q \in Procs :
    p # q /\ BothResynced(run[p], run[q]) =>
      LET v == ChallengeVersion(run[p].payload.legacyId)[1] IN
      /\ MatchesEvent(v, run[p].payload.tags) \/ MatchesEvent(v, run[q].payload.tags)
      /\ LinksOf(db, v) \cap LinksOf(run[p].pre, v) \cap LinksOf(run[q].pre, v) = {}

\* the (component version, technology type) pairs of the Technology Links of a store
LinkPairs(tables) ==
  {<<row.comp_vers_id, row.technology_type_id>> : row \in tables.comp_technology}

\* run s handled, after run r and with both committed, the update event r had handled
HandledTwice(r, s) ==
  /\ r.pc = "done" /\ s.pc = "done"
  /\ r.payload.kind = "update" /\ s.payload = r.payload
  /\ Committed(r) /\ Committed(s)

(***************************************************************************)
(* C21. Update idempotence: handling the same update event a second time,  *)
(* after the first, leaves every Component name and the set of (component  *)
(* version, technology type) pairs of the Technology Links as the first    *)
(* handling left them, one link per pair; only the ids of the Technology   *)
(* Links of a resynced version differ.                                     *)
(***************************************************************************)
C21_UpdateIdempotence ==
  HandledTwice(run[1], run[2]) =>
    /\ \A name \in Tables \ {"comp_technology"} : db[name] = run[2].pre[name]
    /\ LinkPairs(db) = LinkPairs(run[2].pre)
    /\ Cardinality(db.comp_technology) = Cardinality(run[2].pre.comp_technology)
    /\ ResyncApplies(run[2]) =>
         LET v == ChallengeVersion(run[2].payload.legacyId)[1] IN
         /\ LinksOf(db, v) \cap LinksOf(run[2].pre, v) = {}
         /\ db.comp_technology \ LinksOf(db, v) = run[2].pre.comp_technology \ LinksOf(run[2].pre, v)
    /\ ~ResyncApplies(run[2]) => db.comp_technology = run[2].pre.comp_technology

\* a rename with a resync to two technologies was handled twice
C21_Witness ==
  /\ HandledTwice(run[1], run[2])
  /\ run[2].payload.legacyId = 1
  /\ run[2].payload.name = "New2"
  /\ run[2].payload.tags = {"Java", "Node.js", "AWS"}
  /\ run[1].pre = initialStore
  /\ run[2].pre # initialStore
  /\ Cardinality(LinksOf(db, 21)) = 2
  /\ LinksOf(db, 21) # LinksOf(run[2].pre, 21)

====
